---- MODULE Spec2Model ----
(***************************************************************************)
(* KeaBOT: the ReAct loop of the agent (backend/app/agent/core.py), the    *)
(* tool registry it dispatches to (backend/app/tools/base.py) and the      *)
(* human-approval service that gates sensitive tools                       *)
(* (backend/app/services/approval.py), the skill store and its watchdog    *)
(* thread (backend/app/skills/manager.py) and the provider adapters        *)
(* (backend/app/agent/llm.py).                                             *)
(*                                                                         *)
(* Python dictionaries are functions whose DOMAIN is the key set; lists    *)
(* are sequences.  Each coroutine is cut at its awaits and yields: one     *)
(* action runs from one suspension point to the next.                      *)
(***************************************************************************)
EXTENDS Integers, Sequences, FiniteSets, TLC

\* ------------------------------------------------------------------ bounds
\* Largest AgentState.max_tool_calls a run is started with.
MaxLimit == 2
\* Largest number of tool calls the provider puts in one reply.
MaxCallsPerReply == 2
\* Number of approval requests the clients of GateSpec create.
MaxRequests == 2
\* Number of versions the body of a skill file goes through.
MaxVersions == 2

\* --------------------------------------------------------------- dictionaries
EmptyDict == [k \in {} |-> FALSE]
Put(d, k, v) == [x \in (DOMAIN d) \cup {k} |-> IF x = k THEN v ELSE d[x]]
Pop(d, k) == [x \in (DOMAIN d) \ {k} |-> d[x]]
Get(d, k, default) == IF k \in DOMAIN d THEN d[k] ELSE default

\* ------------------------------------------------------------------- state
VARIABLES
  \* ApprovalService (a process-wide singleton)
  pending,      \* _pending: approval_id -> asyncio.Event (TRUE when set)
  results,      \* _results: approval_id -> bool
  nextId,       \* the ids uuid4() has not handed out yet start here
  waiter,       \* per id: where the task calling wait_for_approval stands
  ret,          \* per id: the value wait_for_approval returned (history)
  firstRes,     \* per id: the first approve (TRUE) / reject (FALSE) that found it pending (history)
  lastCall,     \* the last approve / reject call and where its id's waiter stood (history)
  \* SkillManager.skills, shared by every run
  skills,       \* slug -> [name, is_loaded, content]
  files,        \* skills_dir: slug -> the body of <slug>.md
  wd,           \* where the watchdog thread stands in reload_skills
  skill_tools,  \* the skill_<slug> names in ToolRegistry._tools
  given,        \* the skill bodies in texts handed to the planner (history)
  skill_calls,  \* the slugs a skill_<slug> call has activated (history)
  seen,         \* what the last reader of the skill table found (history)
  \* the provider adapters
  client,       \* per adapter: what its constructor has done
  chat_call,    \* the chat / chat_stream call in progress
  parsed,       \* what _parse_response made of the last backend reply
  \* skill activation
  skill_manager,  \* Agent.skill_manager is set
  fs_events,      \* the file events the watchdog observer has not handled yet
  activation,     \* what the last _handle_skill_activation returned (history)
  returned,       \* slug -> the body returned by the first activation that had it
                  \* loaded since it was last invalidated or reloaded (history)
  \* one Agent.run / Agent.run_stream call per element of Runs
  pc,               \* where the coroutine stands
  mode,             \* "run" or "stream"
  messages,         \* AgentState.messages
  tool_call_count,  \* AgentState.tool_call_count
  max_tool_calls,   \* AgentState.max_tool_calls
  visited_files,    \* AgentState.visited_files
  activated_skills, \* AgentState.activated_skills
  tool_calls,       \* the tool calls of the reply being dispatched
  idx,              \* the position of the for loop in tool_calls
  req_id,           \* req_id of the approval the run waits on (0: none)
  all_tool_results, \* run's all_tool_results
  thinking_parts,   \* run's thinking_parts
  events,           \* what run_stream has yielded
  response,         \* what run has returned
  llm_calls,        \* provider.chat / chat_stream invocations made (history)
  executed,         \* the calls handed to ToolRegistry.execute, in order (history)
  start             \* tool_call_count and Len(messages) when the run was called (history)

gateVars == <<pending, results, nextId, waiter, ret, firstRes, lastCall>>

\* Every id uuid4() can return in a behaviour of the model.
IdSpace == 1..(MaxRequests + MaxLimit + MaxCallsPerReply)

\* ------------------------------------------------- ApprovalService, as code
Svc == [pending |-> pending, results |-> results]

\* create_request: a fresh id mapped to a new, unset Event.
create_request(s, id) == [s EXCEPT !.pending = Put(s.pending, id, FALSE)]

\* approve without its membership test: the result is recorded for any id.
approve_unguarded(s, id) ==
  [pending |-> IF id \in DOMAIN s.pending THEN Put(s.pending, id, TRUE) ELSE s.pending,
   results |-> Put(s.results, id, TRUE)]

\* approve: record True and set the event, only for an id in _pending.
approve(s, id) ==
  IF id \in DOMAIN s.pending
    THEN [pending |-> Put(s.pending, id, TRUE), results |-> Put(s.results, id, TRUE)]
    ELSE s

\* reject without its membership test: False is recorded for any id.
reject_unguarded(s, id) ==
  [pending |-> IF id \in DOMAIN s.pending THEN Put(s.pending, id, TRUE) ELSE s.pending,
   results |-> Put(s.results, id, FALSE)]

\* reject with one Event shared by all the requests: every waiter is woken.
reject_shared_event(s, id) ==
  IF id \in DOMAIN s.pending
    THEN [pending |-> [x \in DOMAIN s.pending |-> TRUE],
          results |-> Put(s.results, id, FALSE)]
    ELSE s

\* reject: record False and set the event, only for an id in _pending.
reject(s, id) ==
  IF id \in DOMAIN s.pending
    THEN [pending |-> Put(s.pending, id, TRUE), results |-> Put(s.results, id, FALSE)]
    ELSE s

\* _cleanup that keeps the recorded result.
cleanup_keeps_result(s, id) == [pending |-> Pop(s.pending, id), results |-> s.results]

\* _cleanup: pop the id from both maps.
cleanup(s, id) == [pending |-> Pop(s.pending, id), results |-> Pop(s.results, id)]

\* The value wait_for_approval returns once its task runs again: the recorded
\* result (False when none) after the event was set, False after TimeoutError.
wait_result(s, w, id) == IF w = "timedout" THEN FALSE ELSE Get(s.results, id, FALSE)

\* wait_for_approval up to its await: an id that is not pending returns False
\* at once (no cleanup); otherwise the task suspends on the event.
WaitBegin(id) ==
  /\ waiter[id] = "created"
  /\ IF id \notin DOMAIN pending
       THEN /\ waiter' = [waiter EXCEPT ![id] = "returned"]
            /\ ret' = Put(ret, id, FALSE)
       ELSE /\ waiter' = [waiter EXCEPT ![id] = "waiting"]
            /\ ret' = ret
  /\ UNCHANGED <<pending, results, nextId, firstRes>>

\* asyncio.wait_for gives up: the timeout elapsed with the event still unset.
\* (An event set before the timeout makes wait_for return normally.)
TimeoutFires(id) ==
  /\ waiter[id] = "waiting"
  /\ id \in DOMAIN pending
  /\ ~pending[id]
  /\ waiter' = [waiter EXCEPT ![id] = "timedout"]
  /\ UNCHANGED <<pending, results, nextId, ret, firstRes>>

\* A wait on the event alone, with no timeout (await event.wait()).
CanReturnOnEventOnly(id) ==
  /\ waiter[id] = "waiting"
  /\ Get(pending, id, FALSE)

\* The waiting task is runnable: the event is set, or wait_for timed out.
CanReturn(id) ==
  \/ waiter[id] = "timedout"
  \/ /\ waiter[id] = "waiting"
     /\ Get(pending, id, FALSE)

\* wait_for_approval from its await to its return: the value, then the
\* finally block's _cleanup.
WaitReturn(id) ==
  /\ CanReturn(id)
  /\ ret' = Put(ret, id, wait_result(Svc, waiter[id], id))
  /\ pending' = cleanup(Svc, id).pending
  /\ results' = cleanup(Svc, id).results
  /\ waiter' = [waiter EXCEPT ![id] = "returned"]
  /\ UNCHANGED <<nextId, firstRes>>

\* The first approve / reject that reached a pending request before its
\* timeout elapsed (history only).
NoteFirst(id, v) ==
  IF id \in DOMAIN pending /\ id \notin DOMAIN firstRes /\ waiter[id] # "timedout"
    THEN Put(firstRes, id, v)
    ELSE firstRes

\* POST /approval/{id}/approve and /reject: any id, at any time.
ApproveCall(id) ==
  /\ pending' = approve(Svc, id).pending
  /\ results' = approve(Svc, id).results
  /\ UNCHANGED <<nextId, waiter, ret>>

RejectCall(id) ==
  /\ pending' = reject(Svc, id).pending
  /\ results' = reject(Svc, id).results
  /\ UNCHANGED <<nextId, waiter, ret>>

\* create_request as its caller sees it: uuid4() never repeats an id.
CreateRequest(id) ==
  /\ id = nextId
  /\ pending' = create_request(Svc, id).pending
  /\ results' = create_request(Svc, id).results
  /\ nextId' = nextId + 1
  /\ waiter' = [waiter EXCEPT ![id] = "created"]
  /\ UNCHANGED <<ret, firstRes>>

runVars == <<pc, mode, messages, tool_call_count, max_tool_calls, visited_files,
             activated_skills, tool_calls, idx, req_id, all_tool_results,
             thinking_parts, events, response, llm_calls, executed, start>>

storeVars == <<files, wd, skill_tools, given, skill_calls, seen>>
provVars == <<client, chat_call, parsed>>
actVars == <<skill_manager, fs_events, activation, returned>>
extVars == <<storeVars, provVars, actVars>>

vars == <<gateVars, skills, runVars, extVars>>

\* ------------------------------------------------------------- the agent
Runs == {1, 2}

\* run_stream's sensitive_tools list.
SensitiveTools == {"write_to_file", "replace_file_content", "run_command", "delete_file"}

\* The tools the repository registers (register_tool) and the pseudo-tools
\* register_skills_as_tools adds.
Registered == {"list_directory", "grep_search", "read_file_chunk", "file_stats",
               "visit_page", "screenshot", "youtube", "skill_x"}

\* tool_name[6:] for the names that start with "skill_".
SkillSlug == [skill_x |-> "x", skill_core_identity |-> "core_identity"]

\* _is_skill_call: tool_name.startswith("skill_").
IsSkillCall(name) == name \in DOMAIN SkillSlug

\* The names the provider puts in its calls.
ToolNames == {"read_file_chunk", "delete_file", "skill_x"}

\* The arguments the provider gives a call of that name: dict(fc.args), whose
\* keys are the model's choice.
Arguments(name) ==
  CASE name = "skill_x" -> {[query |-> "q"]}
    [] name = "delete_file" -> {[path |-> "a.txt"], [name |-> "a.txt"]}
    [] OTHER -> {[path |-> "a.txt"]}

\* GeminiProvider._parse_response: {"id": f"call_{fc.name}", "name", "arguments"}.
MkCall(name, args) == [id |-> <<"call_", name>>, name |-> name, arguments |-> args]

\* The calls the provider can put in a reply.
Calls == UNION {{MkCall(n, a) : a \in Arguments(n)} : n \in ToolNames}

\* The text of a reply: empty or not.
Contents == {<<>>, <<"txt">>}

\* The replies of the provider: a text, or none, with at most one tool call;
\* up to MaxCallsPerReply tool calls without text.
Replies ==
  {[content |-> c, tool_calls |-> tcs] :
     c \in Contents, tcs \in UNION {[1..k -> Calls] : k \in 0..1}}
  \cup {[content |-> <<>>, tool_calls |-> tcs] :
          tcs \in UNION {[1..k -> Calls] : k \in 2..MaxCallsPerReply}}

\* ToolResult and ToolResult.to_observation.
Ok == [success |-> TRUE, error |-> ""]
Failed(e) == [success |-> FALSE, error |-> e]
to_observation(result) == IF result.success THEN <<"data">> ELSE <<"[ERROR]", result.error>>

\* An exception instead of a ToolResult.
Raised == [raised |-> TRUE]

\* What tool.execute(**kwargs) of a tool does: it returns its ToolResult or
\* raises; there is no tool to run under an unknown name.
Outcomes(name) == IF name \in Registered THEN {"returns", "raises"} ELSE {"none"}

\* ToolRegistry.execute without its try / except: the fault of the tool
\* leaves the registry.
registry_execute_no_try(name, outcome) ==
  IF name \notin Registered
    THEN Failed("not found")
    ELSE IF outcome = "raises" THEN Raised ELSE Ok

\* ToolRegistry.execute: an unknown name fails with "not found"; a registered
\* tool returns its result, or the failure its exception is turned into.
registry_execute(name, outcome) ==
  IF name \notin Registered
    THEN Failed("not found")
    ELSE IF outcome = "raises" THEN Failed("Tool execution failed") ELSE Ok

\* self.tools.execute(tool_name, **tool_call["arguments"]): an argument named
\* like a parameter of execute(self, name, **kwargs) makes the call itself
\* raise TypeError, outside the try of ToolRegistry.execute.
ExecuteRaises(call) == {"name", "self"} \cap DOMAIN call.arguments # {}

\* The call as run and run_stream make it: the TypeError of the call, or
\* what ToolRegistry.execute returns.
engine_execute(call, outcome) ==
  IF ExecuteRaises(call) THEN Raised ELSE registry_execute(call.name, outcome)

\* The record of a call handed to self.tools.execute: which call of which
\* turn, under which approval, what the tool did, and how many messages and
\* events the run had produced when the call was made.
Execution(r, call, outcome, evs) ==
  [name |-> call.name, req_id |-> req_id[r], turn |-> llm_calls[r], i |-> idx[r],
   outcome |-> outcome, msgs |-> Len(messages[r]),
   evs |-> IF mode[r] = "stream" THEN Len(events[r]) + Len(evs) ELSE 0]

\* The turns of the conversation.
UserTurn == [role |-> "user", content |-> <<"message">>]
AssistantCalls(content, tcs) == [role |-> "assistant", content |-> content, tool_calls |-> tcs]
AssistantFinal(content) == [role |-> "assistant", content |-> content]
ToolTurn(call, result) ==
  [role |-> "tool", tool_call_id |-> call.id, name |-> call.name,
   content |-> to_observation(result)]

\* A for loop that takes the calls of the reply last to first.
NextCallReversed(tcs, i) == tcs[Len(tcs) + 1 - i]

\* for tool_call in response["tool_calls"]: pass i takes call i.
NextCall(tcs, i) == tcs[i]

\* A loop that does not look at the count: while True.
LoopGuardAlways(count, limit) == TRUE

\* The loop guard of run and run_stream.
LoopGuard(count, limit) == count < limit

\* A count of replies instead of calls: state.tool_call_count += 1.
NewCountPerReply(count, tcs) == count + 1

\* state.tool_call_count += len(tool_calls).
NewCount(count, tcs) == count + Len(tcs)

\* Which calls wait for an approval before ToolRegistry.execute: run_stream
\* checks sensitive_tools; run dispatches every call at once.
NeedsApproval(md, name) == md = "stream" /\ name \in SensitiveTools

\* visited_files after a call: read_file_chunk / file_stats with a path.
Visit(visited, call) ==
  IF call.name \in {"read_file_chunk", "file_stats"} /\ Get(call.arguments, "path", "") # ""
    THEN visited \cup {call.arguments.path}
    ELSE visited

\* ------------------------------------------------------- the skill store
\* The skill files the model knows, by slug, and the name in their header.
Slugs == {"x", "core_identity"}
SkillName == [x |-> "X", core_identity |-> "Core Identity"]

\* The body of a skill file in its v-th version; Skill.content starts empty.
Body(v) == <<"body", v>>
Bodies == {Body(v) : v \in 1..MaxVersions}
NoBody == <<>>

\* _parse_skill_metadata: the header only, content and is_loaded at their
\* defaults.
Skill(s) == [name |-> SkillName[s], is_loaded |-> FALSE, content |-> NoBody]

\* scan_skills that leaves a descriptor it already has as it is.
scan_skills_new_only(tbl, fs) ==
  [s \in (DOMAIN tbl) \cup (DOMAIN fs) |-> IF s \in DOMAIN tbl THEN tbl[s] ELSE Skill(s)]

\* scan_skills: self.skills[skill.name] = skill for every file of skills_dir;
\* the entries of other keys stay.
scan_skills(tbl, fs) ==
  [s \in (DOMAIN tbl) \cup (DOMAIN fs) |-> IF s \in DOMAIN fs THEN Skill(s) ELSE tbl[s]]

\* load_skill_content that reads the file whether or not the skill is loaded.
load_skill_content_rereads(tbl, s, fs) ==
  IF s \notin DOMAIN fs
    THEN tbl
    ELSE [tbl EXCEPT ![s].content = fs[s], ![s].is_loaded = TRUE]

\* load_skill_content on the descriptor of slug s: nothing when it is loaded
\* or its file is gone, else the body is read and is_loaded set.
load_skill_content(tbl, s, fs) ==
  IF tbl[s].is_loaded \/ s \notin DOMAIN fs
    THEN tbl
    ELSE [tbl EXCEPT ![s].content = fs[s], ![s].is_loaded = TRUE]

\* SkillHandler.on_modified: is_loaded = False on the skill of that file.
invalidate(tbl, s) ==
  IF s \in DOMAIN tbl THEN [tbl EXCEPT ![s].is_loaded = FALSE] ELSE tbl

\* reload_skills run without interruption: clear, scan.
reload_skills(fs) == scan_skills(EmptyDict, fs)

\* register_skills_as_tools: registry.register of one SkillTool per skill;
\* register never removes a name.
SkillToolName == [x |-> "skill_x", core_identity |-> "skill_core_identity"]
register_skills_as_tools(reg, tbl) == reg \cup {SkillToolName[s] : s \in DOMAIN tbl}

\* Skill.to_tool_definition and get_skills_summary: what the planner is told
\* of a skill before any call.
to_tool_definition(tbl, s) ==
  [name |-> SkillToolName[s], description |-> <<"[SKILL]", tbl[s].name>>]
get_skills_summary(tbl) == {<<tbl[s].name>> : s \in DOMAIN tbl}

\* _get_system_prompt: the skill named Core Identity, or of slug
\* core_identity, when the table has one.
IdentitySkills(tbl) ==
  {s \in DOMAIN tbl : tbl[s].name = "Core Identity" \/ s = "core_identity"}

\* _handle_skill_activation: the result, the skills table after
\* load_skill_content and the names it adds to activated_skills.
SkillFound(name) == skill_manager /\ SkillSlug[name] \in DOMAIN skills
SkillResult(name) ==
  IF ~skill_manager THEN Failed("Skill manager not available")
  ELSE IF SkillFound(name) THEN Ok ELSE Failed("Skill not found")
SkillsAfter(name) ==
  IF SkillFound(name)
    THEN load_skill_content(skills, SkillSlug[name], files)
    ELSE skills
\* An activation that marks the skill as activated before it has looked it up.
ActivatedAfterUnchecked(act, name) == act \cup {SkillName[SkillSlug[name]]}

ActivatedAfter(act, name) ==
  IF SkillFound(name) THEN act \cup {skills[SkillSlug[name]].name} ELSE act

\* _get_system_prompt: a skill whose slug is core_identity gets loaded.
SkillsAfterPrompt ==
  IF ~skill_manager \/ IdentitySkills(skills) = {}
    THEN skills
    ELSE load_skill_content(skills, CHOOSE s \in IdentitySkills(skills) : TRUE, files)

\* A final answer that comes back with the text of the limit advisory.
DoneResponseAdvisory(r, content) ==
  [content |-> <<"limit advisory">>, tool_results |-> all_tool_results[r],
   thinking |-> thinking_parts[r], activated_skills |-> activated_skills[r],
   finished |-> TRUE]

\* The AgentResponse of a final answer and the one of the call limit.
DoneResponse(r, content) ==
  [content |-> content, tool_results |-> all_tool_results[r],
   thinking |-> thinking_parts[r], activated_skills |-> activated_skills[r],
   finished |-> TRUE]
LimitResponse(r) ==
  [content |-> <<"limit advisory">>, tool_results |-> all_tool_results[r],
   thinking |-> thinking_parts[r], activated_skills |-> activated_skills[r],
   finished |-> TRUE]

\* The terminal events of run_stream.
DoneEvent(r) ==
  [type |-> "done", visited_files |-> visited_files[r],
   activated_skills |-> activated_skills[r], tool_calls |-> tool_call_count[r]]
LimitEvent == [type |-> "error", data |-> "Tool call limit reached"]

\* Agent.run / Agent.run_stream is called: the user turn is appended and the
\* system prompt built.
Start(r) ==
  /\ pc[r] = "idle"
  /\ \E md \in {"run", "stream"} : mode' = [mode EXCEPT ![r] = md]
  /\ messages' = [messages EXCEPT ![r] = Append(@, UserTurn)]
  /\ skills' = SkillsAfterPrompt
  /\ pc' = [pc EXCEPT ![r] = "loop"]
  /\ UNCHANGED <<extVars, gateVars, tool_call_count, max_tool_calls, visited_files,
                 activated_skills, tool_calls, idx, req_id, all_tool_results,
                 thinking_parts, events, response, llm_calls, executed, start>>

\* One turn of the while loop up to the for loop: the provider is called and
\* answers; a reply with tool calls is counted and appended, a reply without
\* is the final answer.
LLMReply(r) ==
  /\ pc[r] = "loop"
  /\ LoopGuard(tool_call_count[r], max_tool_calls[r])
  /\ \E reply \in Replies :
       LET content == IF mode[r] = "stream" /\ reply.content # <<>>
                        THEN <<[type |-> "content", data |-> reply.content]>>
                        ELSE <<>>
       IN
       /\ llm_calls' = [llm_calls EXCEPT ![r] = @ + 1]
       /\ IF reply.tool_calls # <<>>
            THEN /\ tool_call_count' =
                      [tool_call_count EXCEPT ![r] = NewCount(@, reply.tool_calls)]
                 /\ messages' = [messages EXCEPT
                      ![r] = Append(@, AssistantCalls(reply.content, reply.tool_calls))]
                 /\ thinking_parts' = [thinking_parts EXCEPT
                      ![r] = IF mode[r] = "run" /\ reply.content # <<>>
                               THEN Append(@, reply.content) ELSE @]
                 /\ tool_calls' = [tool_calls EXCEPT ![r] = reply.tool_calls]
                 /\ idx' = [idx EXCEPT ![r] = 1]
                 /\ events' = [events EXCEPT ![r] = @ \o content]
                 /\ pc' = [pc EXCEPT ![r] = "dispatch"]
                 /\ UNCHANGED response
            ELSE /\ messages' = [messages EXCEPT ![r] = Append(@, AssistantFinal(reply.content))]
                 /\ response' = [response EXCEPT
                      ![r] = IF mode[r] = "run" THEN DoneResponse(r, reply.content) ELSE @]
                 /\ events' = [events EXCEPT
                      ![r] = IF mode[r] = "stream"
                               THEN @ \o content \o <<DoneEvent(r)>>
                               ELSE @]
                 /\ pc' = [pc EXCEPT ![r] = "done"]
                 /\ UNCHANGED <<tool_call_count, thinking_parts, tool_calls, idx>>
  /\ UNCHANGED <<extVars, gateVars, skills, mode, max_tool_calls, visited_files, activated_skills,
                 req_id, all_tool_results, executed, start>>

\* The while loop ends on its guard: the limit advisory (run) or the limit
\* error event (run_stream).
LimitReached(r) ==
  /\ pc[r] = "loop"
  /\ ~LoopGuard(tool_call_count[r], max_tool_calls[r])
  /\ response' = [response EXCEPT
       ![r] = IF mode[r] = "run" THEN LimitResponse(r) ELSE @]
  /\ events' = [events EXCEPT
       ![r] = IF mode[r] = "stream"
                THEN Append(@, LimitEvent)
                ELSE @]
  /\ pc' = [pc EXCEPT ![r] = "limit"]
  /\ UNCHANGED <<extVars, gateVars, skills, mode, messages, tool_call_count, max_tool_calls,
                 visited_files, activated_skills, tool_calls, idx, req_id,
                 all_tool_results, thinking_parts, llm_calls, executed, start>>

\* A pass of the for loop that does not wait for the result of its call: the
\* loop moves on while the tool message is still to come.
EndCallDetached(r, call, result, evs) ==
  /\ visited_files' = [visited_files EXCEPT ![r] = Visit(@, call)]
  /\ events' = [events EXCEPT ![r] = IF mode[r] = "stream" THEN @ \o evs ELSE @]
  /\ idx' = [idx EXCEPT ![r] = @ + 1]
  /\ pc' = [pc EXCEPT ![r] = IF idx[r] = Len(tool_calls[r]) THEN "loop" ELSE "dispatch"]
  /\ req_id' = [req_id EXCEPT ![r] = 0]
  /\ UNCHANGED <<all_tool_results, messages>>

\* The end of a pass when every run works on one state: the tool message and
\* the visited files go to all of them.
EndCallShared(r, call, result, evs) ==
  /\ visited_files' = [q \in Runs |-> IF pc[q] = "off" THEN visited_files[q]
                                       ELSE Visit(visited_files[q], call)]
  /\ events' = [events EXCEPT
       ![r] = IF mode[r] = "stream"
                THEN @ \o evs \o <<[type |-> "tool_end", name |-> call.name,
                                     success |-> result.success,
                                     result |-> to_observation(result)]>>
                ELSE @]
  /\ all_tool_results' = [all_tool_results EXCEPT
       ![r] = IF mode[r] = "run"
                THEN Append(@, [tool_name |-> call.name, tool_call_id |-> call.id,
                                success |-> result.success,
                                result |-> to_observation(result)])
                ELSE @]
  /\ messages' = [q \in Runs |-> IF pc[q] = "off" THEN messages[q]
                                  ELSE Append(messages[q], ToolTurn(call, result))]
  /\ idx' = [idx EXCEPT ![r] = @ + 1]
  /\ pc' = [pc EXCEPT ![r] = IF idx[r] = Len(tool_calls[r]) THEN "loop" ELSE "dispatch"]
  /\ req_id' = [req_id EXCEPT ![r] = 0]

\* The end of a pass with run_stream putting in the conversation the
\* observation it cut for its tool_end event.
EndCallStreamTruncated(r, call, result, evs) ==
  /\ visited_files' = [visited_files EXCEPT ![r] = Visit(@, call)]
  /\ events' = [events EXCEPT
       ![r] = IF mode[r] = "stream"
                THEN @ \o evs \o <<[type |-> "tool_end", name |-> call.name,
                                     success |-> result.success,
                                     result |-> to_observation(result)]>>
                ELSE @]
  /\ all_tool_results' = [all_tool_results EXCEPT
       ![r] = IF mode[r] = "run"
                THEN Append(@, [tool_name |-> call.name, tool_call_id |-> call.id,
                                success |-> result.success,
                                result |-> to_observation(result)])
                ELSE @]
  /\ messages' = [messages EXCEPT
       ![r] = Append(@, IF mode[r] = "stream"
                          THEN [ToolTurn(call, result) EXCEPT
                                  !.content = SubSeq(@, 1, 1)]
                          ELSE ToolTurn(call, result))]
  /\ idx' = [idx EXCEPT ![r] = @ + 1]
  /\ pc' = [pc EXCEPT ![r] = IF idx[r] = Len(tool_calls[r]) THEN "loop" ELSE "dispatch"]
  /\ req_id' = [req_id EXCEPT ![r] = 0]

\* The end of one pass of the for loop: visited_files, the tool_end event
\* (run_stream, after the events evs of this call), the tool result (run) and
\* the tool message; after the last call the while loop goes on.
EndCall(r, call, result, evs) ==
  /\ visited_files' = [visited_files EXCEPT ![r] = Visit(@, call)]
  /\ events' = [events EXCEPT
       ![r] = IF mode[r] = "stream"
                THEN @ \o evs \o <<[type |-> "tool_end", name |-> call.name,
                                     success |-> result.success,
                                     result |-> to_observation(result)]>>
                ELSE @]
  /\ all_tool_results' = [all_tool_results EXCEPT
       ![r] = IF mode[r] = "run"
                THEN Append(@, [tool_name |-> call.name, tool_call_id |-> call.id,
                                success |-> result.success,
                                result |-> to_observation(result)])
                ELSE @]
  /\ messages' = [messages EXCEPT ![r] = Append(@, ToolTurn(call, result))]
  /\ idx' = [idx EXCEPT ![r] = @ + 1]
  /\ pc' = [pc EXCEPT ![r] = IF idx[r] = Len(tool_calls[r]) THEN "loop" ELSE "dispatch"]
  /\ req_id' = [req_id EXCEPT ![r] = 0]

\* An exception leaves run / run_stream: the coroutine ends where it stands.
\* (run_stream has yielded the events evs of the call by then).
Raise(r, evs) ==
  /\ pc' = [pc EXCEPT ![r] = "raised"]
  /\ events' = [events EXCEPT ![r] = IF mode[r] = "stream" THEN @ \o evs ELSE @]
  /\ UNCHANGED <<visited_files, all_tool_results, messages, idx, req_id>>

ToolStart(call) ==
  [type |-> "tool_start", name |-> call.name, arguments |-> call.arguments,
   is_skill |-> IsSkillCall(call.name)]

\* One pass of the for loop for a call that needs no approval: a skill is
\* activated, any other call goes to ToolRegistry.execute.
Dispatch(r) ==
  /\ pc[r] = "dispatch"
  /\ LET call == NextCall(tool_calls[r], idx[r]) IN
     /\ ~NeedsApproval(mode[r], call.name)
     /\ IF IsSkillCall(call.name)
          THEN /\ skills' = SkillsAfter(call.name)
               /\ activated_skills' =
                    [activated_skills EXCEPT ![r] = ActivatedAfter(@, call.name)]
               /\ EndCall(r, call, SkillResult(call.name),
                          <<ToolStart(call),
                            [type |-> "skill_activated", name |-> SkillSlug[call.name],
                             success |-> SkillResult(call.name).success]>>)
               /\ UNCHANGED executed
          ELSE /\ \E outcome \in Outcomes(call.name) :
                    LET result == engine_execute(call, outcome) IN
                    IF result = Raised
                      THEN /\ Raise(r, <<ToolStart(call)>>)
                           /\ UNCHANGED executed
                      ELSE /\ EndCall(r, call, result, <<ToolStart(call)>>)
                           /\ executed' = [executed EXCEPT
                                ![r] = Append(@, Execution(r, call, outcome, <<ToolStart(call)>>))]
               /\ UNCHANGED <<skills, activated_skills>>
  /\ UNCHANGED <<extVars, gateVars, mode, tool_call_count, max_tool_calls, tool_calls,
                 thinking_parts, response, llm_calls, start>>

\* run_stream asking for the approval before it announces the call:
\* approval_required, then tool_start.
RequestApprovalBeforeStart(r) ==
  /\ pc[r] = "dispatch"
  /\ LET call == NextCall(tool_calls[r], idx[r]) IN
     /\ NeedsApproval(mode[r], call.name)
     /\ CreateRequest(nextId)
     /\ req_id' = [req_id EXCEPT ![r] = nextId]
     /\ events' = [events EXCEPT
          ![r] = @ \o <<[type |-> "approval_required", approval_id |-> nextId,
                         tool_name |-> call.name, arguments |-> call.arguments],
                        ToolStart(call)>>]
  /\ pc' = [pc EXCEPT ![r] = "approval_required"]
  /\ UNCHANGED <<extVars, lastCall, skills, mode, messages, tool_call_count, max_tool_calls,
                 visited_files, activated_skills, tool_calls, idx, all_tool_results,
                 thinking_parts, response, llm_calls, executed, start>>

\* run_stream, a sensitive call: tool_start, create_request, and the
\* approval_required event carrying the id; the generator is suspended there.
RequestApproval(r) ==
  /\ pc[r] = "dispatch"
  /\ LET call == NextCall(tool_calls[r], idx[r]) IN
     /\ NeedsApproval(mode[r], call.name)
     /\ CreateRequest(nextId)
     /\ req_id' = [req_id EXCEPT ![r] = nextId]
     /\ events' = [events EXCEPT
          ![r] = @ \o <<ToolStart(call),
                        [type |-> "approval_required", approval_id |-> nextId,
                         tool_name |-> call.name, arguments |-> call.arguments]>>]
  /\ pc' = [pc EXCEPT ![r] = "approval_required"]
  /\ UNCHANGED <<extVars, lastCall, skills, mode, messages, tool_call_count, max_tool_calls,
                 visited_files, activated_skills, tool_calls, idx, all_tool_results,
                 thinking_parts, response, llm_calls, executed, start>>

\* run_stream without its `if approved`: the call is executed whatever
\* wait_for_approval returned.
AfterApprovalIgnored(r, approved) ==
  LET call == NextCall(tool_calls[r], idx[r]) IN
  \E outcome \in Outcomes(call.name) :
    LET result == engine_execute(call, outcome) IN
    IF result = Raised
      THEN /\ Raise(r, <<>>)
           /\ UNCHANGED executed
      ELSE /\ EndCall(r, call, result, <<>>)
           /\ executed' = [executed EXCEPT ![r] = Append(@, Execution(r, call, outcome, <<>>))]

\* What follows wait_for_approval in run_stream: the call is executed when
\* approved; otherwise a failed result and the error event replace it.
AfterApproval(r, approved) ==
  LET call == NextCall(tool_calls[r], idx[r]) IN
  IF approved
    THEN \E outcome \in Outcomes(call.name) :
           LET result == engine_execute(call, outcome) IN
           IF result = Raised
             THEN /\ Raise(r, <<>>)
                  /\ UNCHANGED executed
             ELSE /\ EndCall(r, call, result, <<>>)
                  /\ executed' = [executed EXCEPT
                       ![r] = Append(@, Execution(r, call, outcome, <<>>))]
    ELSE /\ EndCall(r, call, Failed("rejected or timeout"),
                    <<[type |-> "error", data |-> "cancelled"]>>)
         /\ UNCHANGED executed

\* The generator is resumed and calls wait_for_approval.
AwaitApproval(r) ==
  /\ pc[r] = "approval_required"
  /\ WaitBegin(req_id[r])
  /\ IF req_id[r] \in DOMAIN pending
       THEN /\ pc' = [pc EXCEPT ![r] = "wait_for_approval"]
            /\ UNCHANGED <<messages, visited_files, idx, req_id, all_tool_results,
                           events, executed>>
       ELSE AfterApproval(r, FALSE)
  /\ UNCHANGED <<extVars, lastCall, skills, mode, tool_call_count, max_tool_calls,
                 activated_skills, tool_calls, thinking_parts, response, llm_calls, start>>

\* wait_for_approval returns into run_stream.
Resume(r) ==
  /\ pc[r] = "wait_for_approval"
  /\ WaitReturn(req_id[r])
  /\ AfterApproval(r, wait_result(Svc, waiter[req_id[r]], req_id[r]))
  /\ UNCHANGED <<extVars, lastCall, skills, mode, tool_call_count, max_tool_calls,
                 activated_skills, tool_calls, thinking_parts, response, llm_calls, start>>

\* The timeout of a pending wait_for_approval elapses.
Timeout(id) == TimeoutFires(id) /\ UNCHANGED <<extVars, lastCall, skills, runVars>>

\* The operator's POST /approval/{id}/approve and /approval/{id}/reject.
HttpApprove(id) == ApproveCall(id) /\ UNCHANGED <<extVars, firstRes, lastCall, skills, runVars>>
HttpReject(id) == RejectCall(id) /\ UNCHANGED <<extVars, firstRes, lastCall, skills, runVars>>

\* A state a caller hands to run / run_stream: a new one, or the state a
\* finished run with one call left behind.
PriorStates ==
  {[count |-> 0, messages |-> <<>>],
   [count |-> 1,
    messages |-> <<UserTurn,
                   AssistantCalls(<<>>, <<MkCall("read_file_chunk", [path |-> "a.txt"])>>),
                   ToolTurn(MkCall("read_file_chunk", [path |-> "a.txt"]), Ok),
                   AssistantFinal(<<"txt">>)>>]}

GateInit ==
  /\ pending = EmptyDict
  /\ results = EmptyDict
  /\ nextId = 1
  /\ waiter = [i \in IdSpace |-> "none"]
  /\ ret = EmptyDict
  /\ firstRes = EmptyDict
  /\ lastCall = [op |-> "none", id |-> 0, at |-> "none"]

\* get_skill_manager and init_skills over the files fs: the first scan, the
\* registration of the pseudo-tools, the watchdog thread waiting for events.
NoRead == [during |-> FALSE, table |-> {}, before |-> {}, after |-> {}]
StoreInit(fs) ==
  /\ files = fs
  /\ skills = scan_skills(EmptyDict, fs)
  /\ wd = [pc |-> "idle", before |-> {}]
  /\ skill_tools = register_skills_as_tools({}, scan_skills(EmptyDict, fs))
  /\ given = {}
  /\ skill_calls = {}
  /\ seen = NoRead

\* The adapters get_provider builds, none constructed yet.
Adapters == {"gemini", "openai"}
NoCall == [adapter |-> "none", op |-> "none", status |-> "idle", attempt |-> 0,
           errors |-> <<>>, sleeps |-> <<>>]
ProviderInit ==
  /\ client = [a \in Adapters |-> [state |-> "none", key |-> ""]]
  /\ chat_call = NoCall
  /\ parsed = [shape |-> "none"]

\* The agent has its skill manager or none (get_agent(skill_manager) with
\* the manager of main.py, or Agent() built without one); no activation yet.
NoActivation == [slug |-> "none", success |-> FALSE, instructions |-> NoBody, read |-> FALSE]
ActInit(mgr) ==
  /\ skill_manager = mgr
  /\ fs_events = {}
  /\ activation = NoActivation
  /\ returned = EmptyDict

\* The one skill file of the runs of Spec.
OneSkill == [x |-> Body(1)]

\* No run has been called yet; the runs of Active will be.
RunInit(Active) ==
  /\ pc = [r \in Runs |-> IF r \in Active THEN "idle" ELSE "off"]
  /\ mode = [r \in Runs |-> "run"]
  /\ \E prior \in [Active -> PriorStates], limit \in [Active -> 0..MaxLimit] :
       /\ messages = [r \in Runs |-> IF r \in Active THEN prior[r].messages ELSE <<>>]
       /\ tool_call_count = [r \in Runs |-> IF r \in Active THEN prior[r].count ELSE 0]
       /\ max_tool_calls = [r \in Runs |-> IF r \in Active THEN limit[r] ELSE 0]
       /\ start = [r \in Runs |->
                     IF r \in Active
                       THEN [count |-> prior[r].count, len |-> Len(prior[r].messages) + 1]
                       ELSE [count |-> 0, len |-> 0]]
  /\ visited_files = [r \in Runs |-> {}]
  /\ activated_skills = [r \in Runs |-> {}]
  /\ tool_calls = [r \in Runs |-> <<>>]
  /\ idx = [r \in Runs |-> 0]
  /\ req_id = [r \in Runs |-> 0]
  /\ all_tool_results = [r \in Runs |-> <<>>]
  /\ thinking_parts = [r \in Runs |-> <<>>]
  /\ events = [r \in Runs |-> <<>>]
  /\ response = [r \in Runs |-> [finished |-> FALSE]]
  /\ llm_calls = [r \in Runs |-> 0]
  /\ executed = [r \in Runs |-> <<>>]

\* ------------------------------------------------------------ one run
Init == GateInit /\ StoreInit(OneSkill) /\ ProviderInit /\ ActInit(TRUE) /\ RunInit({1})

\* The ids the operator names: the ones created so far and one that is
\* not created yet.
KnownIds == {id \in IdSpace : id <= nextId}

Next ==
  \/ \E r \in Runs : Start(r)
  \/ \E r \in Runs : LLMReply(r)
  \/ \E r \in Runs : LimitReached(r)
  \/ \E r \in Runs : Dispatch(r)
  \/ \E r \in Runs : RequestApproval(r)
  \/ \E r \in Runs : AwaitApproval(r)
  \/ \E r \in Runs : Resume(r)
  \/ \E id \in KnownIds : Timeout(id)
  \/ \E id \in KnownIds : HttpApprove(id)
  \/ \E id \in KnownIds : HttpReject(id)

Spec == Init /\ [][Next]_vars

\* The coroutine of run r is scheduled whenever it can go on: the provider
\* answers, a tool returns, the consumer of the stream asks for the next event.
RunStep(r) ==
  \/ Start(r)
  \/ LLMReply(r)
  \/ LimitReached(r)
  \/ Dispatch(r)
  \/ RequestApproval(r)
  \/ AwaitApproval(r)
  \/ Resume(r)

\* The same behaviours, with every run scheduled and every timer firing.
FairSpec ==
  /\ Spec
  /\ \A r \in Runs : WF_vars(RunStep(r))
  /\ \A id \in IdSpace : WF_vars(Timeout(id))

\* ---------------------------------------------- the approval service alone
\* Independent runs reduced to their approval handshake: each creates a
\* request, surfaces it, then waits; the operator approves or rejects any id.
ClientCreate ==
  /\ nextId <= MaxRequests
  /\ CreateRequest(nextId)
  /\ UNCHANGED <<extVars, lastCall, skills, runVars>>

ClientWait(id) == WaitBegin(id) /\ UNCHANGED <<extVars, lastCall, skills, runVars>>

ClientTimeout(id) == TimeoutFires(id) /\ UNCHANGED <<extVars, lastCall, skills, runVars>>

ClientReturn(id) == WaitReturn(id) /\ UNCHANGED <<extVars, lastCall, skills, runVars>>

ClientApprove(id) ==
  /\ ApproveCall(id)
  /\ firstRes' = NoteFirst(id, TRUE)
  /\ lastCall' = [op |-> "approve", id |-> id, at |-> waiter[id]]
  /\ UNCHANGED <<extVars, skills, runVars>>

ClientReject(id) ==
  /\ RejectCall(id)
  /\ firstRes' = NoteFirst(id, FALSE)
  /\ lastCall' = [op |-> "reject", id |-> id, at |-> waiter[id]]
  /\ UNCHANGED <<extVars, skills, runVars>>

\* The ids the operator names: every created one and one that never is.
GateIds == 1..(MaxRequests + 1)

GateNext ==
  \/ ClientCreate
  \/ \E id \in GateIds : ClientWait(id)
  \/ \E id \in GateIds : ClientTimeout(id)
  \/ \E id \in GateIds : ClientReturn(id)
  \/ \E id \in GateIds : ClientApprove(id)
  \/ \E id \in GateIds : ClientReject(id)

GateSpecInit == GateInit /\ StoreInit(OneSkill) /\ ProviderInit /\ ActInit(TRUE) /\ RunInit({})

GateSpec == GateSpecInit /\ [][GateNext]_vars

\* ------------------------------------------------- the skill store alone
\* The readers and writers of SkillManager.skills: the runs of the agent
\* (system prompt, skill calls), the /skills routes, and the watchdog thread
\* that answers the changes of the files of skills_dir.  The routes and the
\* runs are coroutines of one event loop and run a handler to its end; the
\* watchdog thread is a thread of its own, cut between the statements of
\* reload_skills, and handles one event at a time.

\* get_system_prompt(skills_summary, identity_content): the text handed to
\* the provider as system prompt holds both.
get_system_prompt(skills_summary, identity_content) ==
  [summary |-> skills_summary, identity |-> identity_content]

\* The system prompt _get_system_prompt builds over the table tbl, the
\* identity skill loaded.
SystemPrompt(tbl) ==
  get_system_prompt(get_skills_summary(tbl),
                    IF IdentitySkills(tbl) = {}
                      THEN NoBody
                      ELSE tbl[CHOOSE s \in IdentitySkills(tbl) : TRUE].content)

\* The skills whose body is in the system prompt.
PromptSkills(tbl) ==
  {s \in IdentitySkills(tbl) : SystemPrompt(tbl).identity # NoBody
                                 /\ SystemPrompt(tbl).identity = tbl[s].content}

\* What a run finds when it goes through self.skills.
ReadTable ==
  IF wd.pc = "idle"
    THEN NoRead
    ELSE [during |-> TRUE, table |-> DOMAIN skills, before |-> wd.before,
          after |-> DOMAIN files]

StoreFrame == UNCHANGED <<gateVars, runVars, provVars, actVars>>

\* A run builds its system prompt.
BuildPrompt ==
  /\ skills' = SkillsAfterPrompt
  /\ given' = given \cup PromptSkills(SkillsAfterPrompt)
  /\ seen' = ReadTable
  /\ UNCHANGED <<files, wd, skill_tools, skill_calls>>
  /\ StoreFrame

\* A run dispatches the planner's call of a skill_<slug> pseudo-tool: the
\* body goes back to the planner in the tool turn.
Activate(name) ==
  /\ skills' = SkillsAfter(name)
  /\ skill_calls' = IF SkillFound(name) THEN skill_calls \cup {SkillSlug[name]} ELSE skill_calls
  /\ given' = IF SkillFound(name) /\ SkillsAfter(name)[SkillSlug[name]].content # NoBody
                THEN given \cup {SkillSlug[name]}
                ELSE given
  /\ seen' = ReadTable
  /\ UNCHANGED <<files, wd, skill_tools>>
  /\ StoreFrame

\* GET /skills/{slug} of a skill of the table.
GetSkill(s) ==
  /\ s \in DOMAIN skills
  /\ skills' = load_skill_content(skills, s, files)
  /\ UNCHANGED storeVars
  /\ StoreFrame

\* POST /skills/reload.
HttpReload ==
  /\ skills' = reload_skills(files)
  /\ skill_tools' = register_skills_as_tools(skill_tools, reload_skills(files))
  /\ UNCHANGED <<files, wd, given, skill_calls, seen>>
  /\ StoreFrame

\* POST /skills: save_skill writes the file and reloads.
HttpSave(s, b) ==
  /\ files' = Put(files, s, b)
  /\ skills' = reload_skills(files')
  /\ skill_tools' = register_skills_as_tools(skill_tools, reload_skills(files'))
  /\ UNCHANGED <<wd, given, skill_calls, seen>>
  /\ StoreFrame

\* DELETE /skills/{slug}: delete_skill removes the file and reloads.
HttpDelete(s) ==
  /\ s \in DOMAIN files
  /\ files' = Pop(files, s)
  /\ skills' = reload_skills(files')
  /\ skill_tools' = register_skills_as_tools(skill_tools, reload_skills(files'))
  /\ UNCHANGED <<wd, given, skill_calls, seen>>
  /\ StoreFrame

\* A skill file appears or disappears: on_created / on_deleted enter
\* reload_skills in the watchdog thread.
OnCreated(s, b) ==
  /\ wd.pc = "idle"
  /\ s \notin DOMAIN files
  /\ files' = Put(files, s, b)
  /\ wd' = [pc |-> "reload", before |-> DOMAIN skills]
  /\ UNCHANGED <<skills, skill_tools, given, skill_calls, seen>>
  /\ StoreFrame

OnDeleted(s) ==
  /\ wd.pc = "idle"
  /\ s \in DOMAIN files
  /\ files' = Pop(files, s)
  /\ wd' = [pc |-> "reload", before |-> DOMAIN skills]
  /\ UNCHANGED <<skills, skill_tools, given, skill_calls, seen>>
  /\ StoreFrame

\* A skill file is rewritten: on_modified.
OnModified(s, b) ==
  /\ wd.pc = "idle"
  /\ s \in DOMAIN files
  /\ b # files[s]
  /\ files' = [files EXCEPT ![s] = b]
  /\ skills' = invalidate(skills, s)
  /\ UNCHANGED <<wd, skill_tools, given, skill_calls, seen>>
  /\ StoreFrame

\* reload_skills in the watchdog thread, statement by statement.
WdClear ==
  /\ wd.pc = "reload"
  /\ skills' = EmptyDict
  /\ wd' = [wd EXCEPT !.pc = "cleared"]
  /\ UNCHANGED <<files, skill_tools, given, skill_calls, seen>>
  /\ StoreFrame

WdScan ==
  /\ wd.pc = "cleared"
  /\ skills' = scan_skills(skills, files)
  /\ wd' = [wd EXCEPT !.pc = "scanned"]
  /\ UNCHANGED <<files, skill_tools, given, skill_calls, seen>>
  /\ StoreFrame

WdRegister ==
  /\ wd.pc = "scanned"
  /\ skill_tools' = register_skills_as_tools(skill_tools, skills)
  /\ wd' = [pc |-> "idle", before |-> {}]
  /\ UNCHANGED <<skills, files, given, skill_calls, seen>>
  /\ StoreFrame

SkillNext ==
  \/ BuildPrompt
  \/ \E name \in DOMAIN SkillSlug : Activate(name)
  \/ \E s \in Slugs : GetSkill(s)
  \/ HttpReload
  \/ \E s \in Slugs, b \in Bodies : HttpSave(s, b)
  \/ \E s \in Slugs : HttpDelete(s)
  \/ \E s \in Slugs, b \in Bodies : OnCreated(s, b)
  \/ \E s \in Slugs : OnDeleted(s)
  \/ \E s \in Slugs, b \in Bodies : OnModified(s, b)
  \/ WdClear
  \/ WdScan
  \/ WdRegister

\* Both skill files are there when the application starts.
TwoSkills == [x |-> Body(1), core_identity |-> Body(1)]

SkillSpecInit == GateInit /\ StoreInit(TwoSkills) /\ ProviderInit /\ ActInit(TRUE) /\ RunInit({})

SkillSpec == SkillSpecInit /\ [][SkillNext]_vars

\* ------------------------------------------- the provider adapters alone
\* GeminiProvider and OpenAIProvider: construction, one chat / chat_stream
\* call at a time against a backend that answers or fails, and the parsing
\* of what it answers.

\* The credentials an adapter is constructed with: none, the placeholder of
\* the settings template, a real key.
MissingKey == ""
PlaceholderKey == "your_gemini_api_key_here"
Keys == {MissingKey, PlaceholderKey, "sk-live"}

\* __init__: GeminiProvider raises ValueError on a missing or placeholder
\* key; OpenAIProvider hands whatever it has to AsyncOpenAI.
construct(a, key) ==
  IF a = "gemini" /\ (key = MissingKey \/ key = PlaceholderKey)
    THEN [state |-> "ValueError", key |-> key]
    ELSE [state |-> "built", key |-> key]

\* The retry budget of GeminiProvider.chat.
max_retries == 3

\* What the backend raises: which of the markers the adapter looks for
\* str(e) holds, and whether the failure is a rate-limit / quota one.
Errors ==
  {[kind |-> "TooManyRequests", text |-> {"429"}, transient |-> TRUE],
   [kind |-> "QuotaExceeded", text |-> {"quota"}, transient |-> TRUE],
   [kind |-> "FailedToGenerate", text |-> {"rate"}, transient |-> FALSE],
   [kind |-> "Unauthorized", text |-> {}, transient |-> FALSE]}

\* The errors the backend has for a call made with that key.
ErrorsFor(key) ==
  IF key \in {MissingKey, PlaceholderKey}
    THEN {e \in Errors : e.kind = "Unauthorized"}
    ELSE Errors

\* "429" in str(e) or "quota" in error_str or "rate" in error_str.
is_rate_limit(e) == e.text \cap {"429", "quota", "rate"} # {}

\* The except clause of a call c that got error e: GeminiProvider.chat
\* sleeps (attempt + 1) * 5 and goes round again on a rate-limit error with
\* attempts left; everything else raises.
on_error(c, e) ==
  IF c.adapter = "gemini" /\ c.op = "chat" /\ is_rate_limit(e) /\ c.attempt < max_retries - 1
    THEN [c EXCEPT !.status = "sleeping", !.errors = Append(@, e),
                   !.sleeps = Append(@, (c.attempt + 1) * 5)]
    ELSE [c EXCEPT !.status = "raised", !.errors = Append(@, e)]

\* The replies of a backend: a complete one, and the ones that lack a field.
Shapes(a) ==
  IF a = "gemini"
    THEN {"complete", "no_candidates", "no_content", "no_parts", "empty_parts"}
    ELSE {"complete", "no_choices", "no_content"}

EmptyResult == [status |-> "ok", content |-> <<>>, tool_calls |-> <<>>]
ParseRaises(e) == [status |-> "raised", content |-> <<e>>, tool_calls |-> <<>>]

\* GeminiProvider._parse_response (chat and chat_stream),
\* OpenAIProvider._parse_response (chat) and _parse_stream_chunk
\* (chat_stream) on a reply of that shape.
parse(a, op, shape) ==
  CASE a = "gemini" /\ shape = "complete" ->
         [status |-> "ok", content |-> <<"txt">>,
          tool_calls |-> <<MkCall("read_file_chunk", [path |-> "a.txt"])>>]
    [] a = "gemini" /\ shape \in {"no_candidates", "empty_parts"} -> EmptyResult
    [] a = "gemini" /\ shape \in {"no_content", "no_parts"} ->
         [status |-> "ok", content |-> <<"[Error parsing response: ", shape, "]">>,
          tool_calls |-> <<>>]
    [] a = "openai" /\ op = "chat" /\ shape = "complete" ->
         [status |-> "ok", content |-> <<"txt">>,
          tool_calls |-> <<[id |-> <<"backend id", 1>>, name |-> "read_file_chunk",
                            arguments |-> [path |-> "a.txt"]]>>]
    [] a = "openai" /\ op = "chat" /\ shape = "no_choices" -> ParseRaises("IndexError")
    [] a = "openai" /\ op = "chat_stream" /\ shape = "complete" ->
         [status |-> "ok", content |-> <<"txt">>, tool_calls |-> <<>>]
    [] OTHER -> EmptyResult

ProvFrame == UNCHANGED <<gateVars, skills, runVars, storeVars, actVars>>

\* get_provider constructs an adapter.
Construct(a, key) ==
  /\ chat_call.status \notin {"sending", "sleeping"}
  /\ client' = [client EXCEPT ![a] = construct(a, key)]
  /\ UNCHANGED <<chat_call, parsed>>
  /\ ProvFrame

\* A run calls chat or chat_stream of a constructed adapter: the request
\* goes out.
BeginChat(a, op) ==
  /\ client[a].state = "built"
  /\ chat_call.status \notin {"sending", "sleeping"}
  /\ chat_call' = [adapter |-> a, op |-> op, status |-> "sending", attempt |-> 0,
                   errors |-> <<>>, sleeps |-> <<>>]
  /\ parsed' = [shape |-> "none"]
  /\ UNCHANGED client
  /\ ProvFrame

\* The backend answers; the adapter parses the answer and returns it, or
\* the parser's exception leaves the call.
BackendReplies(shape) ==
  /\ chat_call.status = "sending"
  /\ client[chat_call.adapter].key \notin {MissingKey, PlaceholderKey}
  /\ shape \in Shapes(chat_call.adapter)
  /\ parsed' = [shape |-> shape, result |-> parse(chat_call.adapter, chat_call.op, shape)]
  /\ chat_call' = [chat_call EXCEPT !.status =
                     IF parse(chat_call.adapter, chat_call.op, shape).status = "raised"
                       THEN "raised" ELSE "returned"]
  /\ UNCHANGED client
  /\ ProvFrame

\* The backend fails.
BackendFails(e) ==
  /\ chat_call.status = "sending"
  /\ e \in ErrorsFor(client[chat_call.adapter].key)
  /\ chat_call' = on_error(chat_call, e)
  /\ UNCHANGED <<client, parsed>>
  /\ ProvFrame

\* asyncio.sleep(wait_time) is over: the next attempt.
Wake ==
  /\ chat_call.status = "sleeping"
  /\ chat_call' = [chat_call EXCEPT !.status = "sending", !.attempt = @ + 1]
  /\ UNCHANGED <<client, parsed>>
  /\ ProvFrame

ProviderNext ==
  \/ \E a \in Adapters, key \in Keys : Construct(a, key)
  \/ \E a \in Adapters, op \in {"chat", "chat_stream"} : BeginChat(a, op)
  \/ \E shape \in Shapes("gemini") \cup Shapes("openai") : BackendReplies(shape)
  \/ \E e \in Errors : BackendFails(e)
  \/ Wake

ProviderSpecInit == GateInit /\ StoreInit(OneSkill) /\ ProviderInit /\ ActInit(TRUE) /\ RunInit({})

ProviderSpec == ProviderSpecInit /\ [][ProviderNext]_vars

\* ------------------------------------------------------------ two runs
\* Two runs at once, each on an AgentState of its own, through the one Agent
\* of get_agent: POST /chat builds AgentState(session_id, messages,
\* visited_files) for every request, with max_tool_calls of 1 here and an
\* empty conversation.
TwoRunsInit ==
  /\ GateInit /\ StoreInit(OneSkill) /\ ProviderInit /\ ActInit(TRUE) /\ RunInit(Runs)
  /\ \A r \in Runs : max_tool_calls[r] = 1 /\ messages[r] = <<>>

\* The steps of Next, the provider giving the second run one call a reply
\* at most.
TwoRunsNext ==
  \/ \E r \in Runs : Start(r)
  \/ \E r \in Runs : LLMReply(r) /\ Len(tool_calls'[2]) <= 1
  \/ \E r \in Runs : LimitReached(r)
  \/ \E r \in Runs : Dispatch(r)
  \/ \E r \in Runs : RequestApproval(r)
  \/ \E r \in Runs : AwaitApproval(r)
  \/ \E r \in Runs : Resume(r)
  \/ \E id \in KnownIds : Timeout(id)
  \/ \E id \in KnownIds : HttpApprove(id)
  \/ \E id \in KnownIds : HttpReject(id)

TwoRunsSpec == TwoRunsInit /\ [][TwoRunsNext]_vars

\* ================================================================== claims

Terminal(r) == pc[r] \in {"done", "limit"}

\* The turns run r has appended after the user turn.
Appended(r) == SubSeq(messages[r], start[r].len + 1, Len(messages[r]))

RECURSIVE SumCalls(_)
SumCalls(ms) ==
  IF ms = <<>> THEN 0
  ELSE (IF "tool_calls" \in DOMAIN Head(ms) THEN Len(Head(ms).tool_calls) ELSE 0)
       + SumCalls(Tail(ms))

\* The positions of seq whose element satisfies Test.
Positions(seq, Test(_)) == {k \in 1..Len(seq) : Test(seq[k])}

IsToolTurn(m) == m.role = "tool"
IsToolEnd(e) == e.type = "tool_end"

\* C1: in run and in run_stream alike, a sensitive call reaches
\* ToolRegistry.execute only with an approval request of its own whose
\* wait_for_approval returned True.
C1_SensitiveRunsOnlyApproved ==
  \A r \in Runs : \A k \in 1..Len(executed[r]) :
    executed[r][k].name \in SensitiveTools =>
      /\ executed[r][k].req_id \in DOMAIN ret
      /\ ret[executed[r][k].req_id]

C8_ProviderCallsBounded ==
  \A r \in Runs : start[r].count = 0 => llm_calls[r] <= max_tool_calls[r] + 1

\* C8 witness: a run that began at 0 has used its whole limit, one call a turn.
C8_Witness ==
  \E r \in Runs :
    /\ start[r].count = 0
    /\ max_tool_calls[r] = MaxLimit
    /\ llm_calls[r] = MaxLimit
    /\ pc[r] = "limit"

\* C9: with every run scheduled and every timer firing, a run that was
\* called ends in a terminal state: its final answer or the call limit.
C9_RunTerminates ==
  \A r \in Runs : (pc[r] = "idle") ~> Terminal(r)

\* C10: when a run has ended, tool_call_count has grown by the number of tool
\* calls carried by the assistant turns the run appended.
C10_CountIsSumOfCalls ==
  \A r \in Runs :
    Terminal(r) => tool_call_count[r] - start[r].count = SumCalls(Appended(r))

\* C10 witness: a run has ended after two turns with calls, one with several.
C10_Witness ==
  \E r \in Runs :
    /\ Terminal(r)
    /\ llm_calls[r] >= 2
    /\ SumCalls(Appended(r)) >= 3

\* C3: wait_for_approval(id) returns True exactly when the resolution that
\* reached the request first, before its timeout, was approve(id); it returns
\* False when that resolution was reject(id) or when the timeout elapsed.
C3_ReturnsFirstResolution ==
  \A id \in DOMAIN ret : ret[id] = Get(firstRes, id, FALSE)

\* C4: a request is resolved at most once: a result recorded for a pending id
\* is not changed by a later approve(id) or reject(id).
C4_ResolvedAtMostOnce ==
  [][\A id \in (DOMAIN results) \cap (DOMAIN results') : results'[id] = results[id]]_vars

\* C5: approve(id) / reject(id) with an id that was never created, or whose
\* wait_for_approval has returned, changes neither map (so no other request).
C5_UnknownIdIsNoOp ==
  [][\A id \in GateIds :
       ((ClientApprove(id) \/ ClientReject(id)) /\ waiter[id] \in {"none", "returned"})
         => UNCHANGED <<pending, results>>]_vars

\* C5 witness: approve / reject reached an id whose wait had returned while
\* another request was pending.
C5_Witness ==
  /\ lastCall.op # "none"
  /\ lastCall.at = "returned"
  /\ DOMAIN pending # {}

\* C6: once wait_for_approval(id) has returned, whatever the outcome, id is in
\* neither _pending nor _results.
C6_ReturnedIsCleaned ==
  \A id \in DOMAIN ret : id \notin DOMAIN pending /\ id \notin DOMAIN results

\* C6 witness: one wait has returned approved and another has returned on
\* its timeout, with a rejection recorded after the timeout had elapsed.
C6_Witness ==
  /\ \E id \in DOMAIN ret : ret[id]
  /\ \E id \in DOMAIN ret :
       ~ret[id] /\ id \notin DOMAIN firstRes /\ lastCall = [op |-> "reject", id |-> id, at |-> "timedout"]

\* C7: approve(i) / reject(i) leaves every other id j as it was: its event,
\* its recorded result and its waiter, so it neither wakes j's waiter nor
\* changes what that waiter will return.
C7_PerIdIsolation ==
  [][\A i \in GateIds :
       (ClientApprove(i) \/ ClientReject(i)) =>
         \A j \in GateIds \ {i} :
           /\ Get(pending, j, "absent") = Get(pending', j, "absent")
           /\ Get(results, j, "absent") = Get(results', j, "absent")
           /\ waiter'[j] = waiter[j]
           /\ CanReturn(j)' = CanReturn(j)]_vars

\* C7 witness: two requests wait at once, one resolved and the other not.
C7_Witness ==
  \E i, j \in GateIds :
    /\ i # j
    /\ waiter[i] = "waiting" /\ waiter[j] = "waiting"
    /\ Get(pending, i, FALSE) /\ ~Get(pending, j, TRUE)
    /\ lastCall.id = i

\* The tool messages run r has appended.
ToolTurns(r) == SelectSeq(Appended(r), IsToolTurn)

\* C11: a run that starts within its limit never has tool_call_count above
\* max_tool_calls, and the calls it has dispatched (one tool message each),
\* added to the count it started with, stay within max_tool_calls, however
\* many calls one reply carries.
C11_CountWithinLimit ==
  \A r \in Runs :
    start[r].count <= max_tool_calls[r] =>
      /\ tool_call_count[r] <= max_tool_calls[r]
      /\ start[r].count + Len(ToolTurns(r)) <= max_tool_calls[r]

\* C12: when the first reply of a run carries no tool calls, run has returned
\* after that one provider call: the only turn appended after the user turn
\* is one assistant turn (no tool message), the response is the final answer
\* with the reply's content, and tool_call_count is what it was.
C12_FirstReplyWithoutCalls ==
  \A r \in Runs :
    (/\ mode[r] = "run"
     /\ llm_calls[r] >= 1
     /\ Appended(r) # <<>>
     /\ "tool_calls" \notin DOMAIN Appended(r)[1]) =>
      /\ pc[r] = "done"
      /\ llm_calls[r] = 1
      /\ Len(Appended(r)) = 1
      /\ Appended(r)[1].role = "assistant"
      /\ response[r].finished
      /\ response[r].content = Appended(r)[1].content
      /\ response[r].tool_results = <<>>
      /\ tool_call_count[r] = start[r].count

\* C12 witness: a run on a state that had counted a call returned a final
\* answer with a text from its first reply.
C12_Witness ==
  \E r \in Runs :
    /\ mode[r] = "run"
    /\ pc[r] = "done"
    /\ llm_calls[r] = 1
    /\ start[r].count = 1
    /\ response[r].content # <<>>

\* A turn of the conversation that carries a call of a skill.
HasSkillCall(m) ==
  /\ "tool_calls" \in DOMAIN m
  /\ \E k \in 1..Len(m.tool_calls) : IsSkillCall(m.tool_calls[k].name)

\* C13: a run that ends on the call limit has counted at least
\* max_tool_calls calls and returns a response that says so by more than its
\* text (some field other than content differs from the response of a final
\* answer), whose content is the fixed advisory, whose tool_results are the
\* observations of the run, one per tool message and in the same order, and
\* which names an activated skill only if the run made a skill call.
C13_LimitResponseIsDistinct ==
  \A r \in Runs :
    (mode[r] = "run" /\ pc[r] = "limit") =>
      /\ tool_call_count[r] >= max_tool_calls[r]
      /\ response[r].content = <<"limit advisory">>
      /\ Len(response[r].tool_results) = Len(ToolTurns(r))
      /\ \A k \in 1..Len(ToolTurns(r)) :
           /\ response[r].tool_results[k].tool_name = ToolTurns(r)[k].name
           /\ response[r].tool_results[k].tool_call_id = ToolTurns(r)[k].tool_call_id
           /\ response[r].tool_results[k].result = ToolTurns(r)[k].content
      /\ (response[r].activated_skills # {} =>
            \E k \in 1..Len(Appended(r)) : HasSkillCall(Appended(r)[k]))
      /\ \E f \in (DOMAIN response[r]) \ {"content"} :
           \A c \in Contents : response[r][f] # DoneResponse(r, c)[f]

\* The positions, in messages[r], of the assistant turns with calls that run
\* r has appended.
CallTurns(r) ==
  {p \in (start[r].len + 1)..Len(messages[r]) : "tool_calls" \in DOMAIN messages[r][p]}

\* C14: the turns that follow an assistant turn with calls c1..ck are the
\* tool messages answering c1..ck, in that order, each with its call's id
\* and name, and the turn after them is not a tool message; as long as some
\* of the k are missing, the run is still inside the for loop of that turn
\* (or was stopped there), so it has appended no other assistant turn and
\* made no other provider call.
C14_ToolMessagesFollowTheirTurn ==
  \A r \in Runs : \A p \in CallTurns(r) :
    LET ms == messages[r]
        tcs == ms[p].tool_calls
        k == Len(tcs)
    IN /\ \A j \in 1..k :
            p + j <= Len(ms) =>
              /\ ms[p + j].role = "tool"
              /\ ms[p + j].tool_call_id = tcs[j].id
              /\ ms[p + j].name = tcs[j].name
       /\ p + k + 1 <= Len(ms) => ms[p + k + 1].role # "tool"
       /\ p + k > Len(ms) =>
            /\ pc[r] \in {"dispatch", "approval_required", "wait_for_approval", "raised"}
            /\ \A q \in CallTurns(r) : q <= p
            /\ tcs = tool_calls[r]
            /\ Len(ms) = p + idx[r] - 1
            /\ llm_calls[r] = Cardinality({q \in (start[r].len + 1)..Len(ms) :
                                              ms[q].role = "assistant"})

\* C14 witness: a turn with one call was answered and followed by a turn
\* with two calls of different names, answered by its two tool messages
\* before the run ended.
C14_Witness ==
  \E r \in Runs : \E p, q \in CallTurns(r) :
    /\ q = p + 2
    /\ Len(messages[r][q].tool_calls) = 2
    /\ messages[r][q].tool_calls[1].name # messages[r][q].tool_calls[2].name
    /\ Len(messages[r]) = q + 2
    /\ Terminal(r)

\* C15: the calls a run hands to ToolRegistry.execute are taken in the order
\* of their turn, one at a time: call i of a turn is executed when the i - 1
\* calls before it have their tool messages and no later one has, its own
\* tool message is the next turn of the conversation, and the following
\* execution starts only after that message, so that no two overlap.
C15_CallsRunOneAtATime ==
  \A r \in Runs : \A k \in 1..Len(executed[r]) :
    LET e == executed[r][k]
        p == e.msgs - (e.i - 1)
        ms == messages[r]
    IN /\ p \in CallTurns(r)
       /\ e.i <= Len(ms[p].tool_calls)
       /\ ms[p].tool_calls[e.i].name = e.name
       /\ \A j \in 1..(e.i - 1) : ms[p + j].role = "tool"
       /\ Len(ms) >= e.msgs + 1
       /\ ms[e.msgs + 1].role = "tool"
       /\ ms[e.msgs + 1].name = e.name
       /\ k > 1 =>
            /\ executed[r][k - 1].msgs + 1 <= e.msgs
            /\ \/ executed[r][k - 1].turn < e.turn
               \/ executed[r][k - 1].turn = e.turn /\ executed[r][k - 1].i < e.i

\* C15 witness: the two calls of one turn have both been executed.
C15_Witness ==
  \E r \in Runs : \E k \in 1..(Len(executed[r]) - 1) :
    /\ executed[r][k].turn = executed[r][k + 1].turn
    /\ executed[r][k].i = 1
    /\ executed[r][k + 1].i = 2
    /\ executed[r][k].name # executed[r][k + 1].name

\* The call the for loop of run r stands on.
CurrentCall(r) == NextCall(tool_calls[r], idx[r])

\* C16: a call of a name that is not registered, dispatched by run or
\* run_stream with its arguments spread as keyword parameters, comes back as
\* a failed result ("not found") whatever the keys of its arguments: the
\* dispatch of such a call never raises into the loop.
C16_UnknownNameNeverRaises ==
  \A r \in Runs :
    /\ pc[r] = "raised" => CurrentCall(r).name \in Registered
    /\ \A k \in 1..Len(executed[r]) :
         executed[r][k].name \notin Registered =>
           messages[r][executed[r][k].msgs + 1].content = <<"[ERROR]", "not found">>

\* C17: when the execute of a registered tool raises, ToolRegistry.execute
\* returns a failed result with the fault's message, which becomes the call's
\* tool message; the only exception that reaches the loop is the TypeError of
\* the call itself, never the fault of a tool.
C17_ToolFaultBecomesResult ==
  \A r \in Runs :
    /\ pc[r] = "raised" => ExecuteRaises(CurrentCall(r))
    /\ \A k \in 1..Len(executed[r]) :
         executed[r][k].outcome = "raises" =>
           /\ executed[r][k].name \in Registered
           /\ messages[r][executed[r][k].msgs + 1].content =
                <<"[ERROR]", "Tool execution failed">>
           /\ registry_execute(executed[r][k].name, "raises").success = FALSE

\* C17 witness: a run has ended after a registered tool raised.
C17_Witness ==
  \E r \in Runs : \E k \in 1..Len(executed[r]) :
    /\ executed[r][k].outcome = "raises"
    /\ Terminal(r)

\* The result of a call of run r that fails in the registry: an unknown name,
\* or a tool that raised in the step.
FailureOf(r) ==
  IF CurrentCall(r).name \notin Registered
    THEN Failed("not found")
    ELSE Failed("Tool execution failed")

\* Run r dispatches its current call in the step, and the call fails in the
\* registry.
FailsInStep(r) ==
  /\ pc[r] \in {"dispatch", "wait_for_approval"}
  /\ ~IsSkillCall(CurrentCall(r).name)
  /\ \/ /\ CurrentCall(r).name \notin Registered
        /\ pc[r] = "dispatch" => (~NeedsApproval(mode[r], CurrentCall(r).name) /\ Dispatch(r))
        /\ pc[r] = "wait_for_approval" =>
             (Resume(r) /\ wait_result(Svc, waiter[req_id[r]], req_id[r]))
     \/ /\ Len(executed'[r]) = Len(executed[r]) + 1
        /\ executed'[r][Len(executed'[r])].outcome = "raises"

\* C18: a call that fails in the registry (unknown name, or a tool that
\* raised) does not abort the run: the failed result is appended as the
\* call's tool message, and the for loop goes on to the next call of the
\* turn or, after the last one, back to the provider.
C18_FailureDoesNotAbort ==
  [][\A r \in Runs :
       FailsInStep(r) =>
         /\ pc'[r] # "raised"
         /\ messages'[r] = Append(messages[r], ToolTurn(CurrentCall(r), FailureOf(r)))
         /\ idx'[r] = idx[r] + 1
         /\ pc'[r] = IF idx[r] < Len(tool_calls[r]) THEN "dispatch" ELSE "loop"]_vars

IsRejection(e) == e.type = "error" /\ e.data = "cancelled"
IsBracket(e) == e.type \in {"tool_start", "tool_end"}

\* The tool_start and tool_end events of run r, in the order it yielded them.
Brackets(r) == SelectSeq(events[r], IsBracket)

\* C19: in the events of run_stream, tool_start and tool_end alternate, so
\* that each call has one tool_start, then one tool_end of the same name
\* before the tool_start of the next call; there is one tool_end per tool
\* message, in the same order; a call is handed to ToolRegistry.execute
\* after its tool_start and its tool_end is the next event; and every
\* approval_required, skill_activated and rejection error comes after the
\* tool_start of the call it names and before the tool_end that closes it.
C19_ToolEventsBracketEachCall ==
  \A r \in Runs :
    mode[r] = "stream" =>
      /\ \A k \in 1..Len(Brackets(r)) :
           /\ Brackets(r)[k].type = IF k % 2 = 1 THEN "tool_start" ELSE "tool_end"
           /\ k % 2 = 0 =>
                /\ Brackets(r)[k].name = Brackets(r)[k - 1].name
                /\ Brackets(r)[k].name = ToolTurns(r)[k \div 2].name
      /\ Len(Brackets(r)) =
           2 * Len(ToolTurns(r)) +
             (IF pc[r] \in {"approval_required", "wait_for_approval", "raised"} THEN 1 ELSE 0)
      /\ \A q \in 1..Len(events[r]) :
           LET e == events[r][q] IN
           /\ e.type = "approval_required" =>
                /\ events[r][q - 1].type = "tool_start"
                /\ events[r][q - 1].name = e.tool_name
           /\ e.type = "skill_activated" =>
                /\ events[r][q - 1].type = "tool_start"
                /\ SkillSlug[events[r][q - 1].name] = e.name
                /\ events[r][q + 1].type = "tool_end"
           /\ IsRejection(e) =>
                /\ events[r][q - 1].type = "approval_required"
                /\ events[r][q + 1].type = "tool_end"
      /\ \A k \in 1..Len(executed[r]) :
           LET e == executed[r][k]
               before == events[r][e.evs]
           IN /\ \/ before.type = "tool_start" /\ before.name = e.name
                 \/ before.type = "approval_required" /\ before.tool_name = e.name
              /\ events[r][e.evs + 1].type = "tool_end"
              /\ events[r][e.evs + 1].name = e.name

\* C19 witness: a stream has ended after an executed call, a rejected call
\* and a skill call.
C19_Witness ==
  \E r \in Runs :
    /\ mode[r] = "stream"
    /\ Terminal(r)
    /\ executed[r] # <<>>
    /\ \E q \in 1..Len(events[r]) : IsRejection(events[r][q])
    /\ \E q \in 1..Len(events[r]) : events[r][q].type = "skill_activated"

\* The generator of run r is exhausted: it returned, or an exception left it.
Ended(r) == pc[r] \in {"done", "limit", "raised"}

\* The positions of the terminal events among the events of run r.
TerminalEvents(r) ==
  {q \in 1..Len(events[r]) : events[r][q].type = "done" \/ events[r][q] = LimitEvent}

\* C20: the events of a run_stream that has ended hold exactly one terminal
\* event, the last one: done with the visited files, the activated skills
\* and the tool_call_count of the state after a final answer, the limit error
\* after the call limit; a stream that has not ended has yielded none.
C20_StreamEndsWithOneTerminalEvent ==
  \A r \in Runs :
    mode[r] = "stream" =>
      /\ Ended(r) => TerminalEvents(r) = {Len(events[r])} /\ events[r] # <<>>
      /\ pc[r] = "done" => events[r][Len(events[r])] = DoneEvent(r)
      /\ pc[r] = "limit" => events[r][Len(events[r])] = LimitEvent
      /\ ~Ended(r) => TerminalEvents(r) = {}

ScanStep ==
  \/ WdScan
  \/ HttpReload
  \/ \E s \in Slugs, b \in Bodies : HttpSave(s, b)
  \/ \E s \in Slugs : HttpDelete(s)

\* C22: right after scan_skills every descriptor of the store is unloaded
\* and has an empty body.
C22_ScanLeavesNothingLoaded ==
  [][ScanStep => \A s \in DOMAIN skills' :
                   ~skills'[s].is_loaded /\ skills'[s].content = NoBody]_vars

\* The watchdog's scan has just run over a store that holds a skill a call
\* had activated.
C22_Witness ==
  /\ wd.pc = "scanned"
  /\ skill_calls = {"x"}
  /\ "x" \in DOMAIN skills
  /\ ~skills["x"].is_loaded

\* Skill s of the store goes from unloaded to loaded in this step.
BecomesLoaded(s) ==
  /\ s \in DOMAIN skills /\ ~skills[s].is_loaded
  /\ s \in DOMAIN skills' /\ skills'[s].is_loaded

\* C23: is_loaded goes from false to true only in the activation of that
\* skill, the dispatch of a skill_<slug> call.
C23_LoadedOnlyByActivation ==
  [][\A s \in Slugs : BecomesLoaded(s) => Activate(SkillToolName[s])]_vars

\* The watchdog thread answers the rewriting of the file of skill s.
InvalidateStep(s) == \E b \in Bodies : OnModified(s, b)

\* C24: the invalidation of a loaded skill leaves it in the store, unloaded
\* and with its body cleared, and leaves every other descriptor as it was.
C24_InvalidateClearsBody ==
  [][\A s \in Slugs :
       (InvalidateStep(s) /\ s \in DOMAIN skills /\ skills[s].is_loaded)
         => /\ DOMAIN skills' = DOMAIN skills
            /\ ~skills'[s].is_loaded
            /\ skills'[s].content = NoBody
            /\ \A t \in DOMAIN skills \ {s} : skills'[t] = skills[t]]_vars

\* C25: a run that reads the skill table while the watchdog thread reloads
\* it finds the whole table of before the reload or the whole table of the
\* files as they are, never an empty or partly filled one.
C25_ReadersSeeCompleteTable ==
  seen.during => seen.table \in {seen.before, seen.after}

\* ------------------------------------------------- the provider adapters
\* The calls of run r: the turn that carries each and its place in it.
RunCalls(r) ==
  UNION {{<<p, i>> : i \in 1..Len(messages[r][p].tool_calls)} : p \in CallTurns(r)}

\* C26: two distinct calls of a run never carry the same id, two calls of
\* the same tool included.
C26_CallIdsUnique ==
  \A r \in Runs : \A c, d \in RunCalls(r) :
    c # d => messages[r][c[1]].tool_calls[c[2]].id # messages[r][d[1]].tool_calls[d[2]].id

\* The last error of a sequence of errors.
LastError(errs) == errs[Len(errs)]

\* C27: whatever the adapter and the call, a rate-limit / quota error is
\* retried, with a pause before each new attempt, until max_retries
\* attempts have failed, and only then raised; any other error is raised at
\* once and never retried.
C27_TransientErrorsRetried ==
  /\ (chat_call.status = "raised" /\ chat_call.errors # <<>>
        /\ LastError(chat_call.errors).transient)
       => /\ Len(chat_call.errors) = max_retries
          /\ Len(chat_call.sleeps) = max_retries - 1
  /\ \A i \in 1..Len(chat_call.errors) :
       ~chat_call.errors[i].transient
         => i = Len(chat_call.errors) /\ chat_call.status = "raised"

\* C28: an adapter constructed with a missing or placeholder credential is
\* not built: its constructor has raised the configuration error.
C28_BadCredentialFailsConstruction ==
  \A a \in Adapters :
    (client[a].state # "none" /\ client[a].key \in {MissingKey, PlaceholderKey})
      => client[a].state = "ValueError"

\* The replies that lack a field the parser reads.
Lacking == {"no_candidates", "no_choices", "no_content", "no_parts"}

\* C29: parsing a reply that lacks an expected field does not raise and
\* gives empty content and no calls.
C29_LackingReplyParsesEmpty ==
  parsed.shape \in Lacking => parsed.result = EmptyResult

\* ------------------------------------------------------------ two runs
\* What a run owns of its AgentState.
RunState(r) == <<messages[r], tool_call_count[r], visited_files[r], activated_skills[r]>>

\* C30: of two runs at work at the same time on their own AgentState, each
\* has its conversation, call count, visited files and activated skills
\* changed by its own steps only.
C30_RunsDoNotTouchEachOther ==
  [][\A r \in Runs : RunState(r)' # RunState(r) => RunStep(r)]_vars

\* Both runs are in the middle of their for loop, each with a call counted
\* and the two conversations different.
C30_Witness ==
  /\ \A r \in Runs : pc[r] \in {"dispatch", "approval_required", "wait_for_approval"}
                       /\ tool_call_count[r] > 0
  /\ messages[1] # messages[2]

\* ---------------------------------------------------- run and run_stream
\* The same request served twice from the same state: run 1 by Agent.run,
\* then run 2 by Agent.run_stream, its provider giving it the replies run 1
\* got and its tools the outcomes run 1's tools had.  No reply names a
\* sensitive tool.
IsPrefix(a, b) == Len(a) <= Len(b) /\ SubSeq(b, 1, Len(a)) = a

IsAssistantTurn(m) == m.role = "assistant"

\* What run r was given so far: the replies of the provider, as the
\* assistant turns hold them, and what its tools did.
RepliesOf(r) == SelectSeq(Appended(r), IsAssistantTurn)
OutcomesOf(r) == [k \in 1..Len(executed[r]) |-> <<executed[r][k].name, executed[r][k].outcome>>]

Follows ==
  /\ IsPrefix(RepliesOf(2), RepliesOf(1))
  /\ IsPrefix(OutcomesOf(2), OutcomesOf(1))

NoSensitive(tcs) == \A i \in 1..Len(tcs) : tcs[i].name \notin SensitiveTools

PairInit ==
  /\ GateInit /\ StoreInit(OneSkill) /\ ProviderInit /\ ActInit(TRUE) /\ RunInit(Runs)
  /\ messages[1] = messages[2]
  /\ tool_call_count[1] = tool_call_count[2]
  /\ max_tool_calls[1] = max_tool_calls[2]

PairNext ==
  \/ Start(1) /\ mode'[1] = "run"
  \/ LLMReply(1) /\ NoSensitive(tool_calls'[1])
  \/ LimitReached(1)
  \/ Dispatch(1)
  \/ Terminal(1) /\ Start(2) /\ mode'[2] = "stream"
  \/ LLMReply(2) /\ Follows'
  \/ LimitReached(2)
  \/ Dispatch(2) /\ Follows'

PairSpec == PairInit /\ [][PairNext]_vars

C32_StreamSurfacesTheCalls ==
  (chat_call.op = "chat_stream" /\ chat_call.status = "returned")
    => parsed.result.tool_calls
         = parse(chat_call.adapter, "chat", parsed.shape).tool_calls

\* ------------------------------------------------------ skill activation
\* _handle_skill_activation of the run's skill_<slug> calls against a skills
\* directory that is edited meanwhile: the watchdog observer delivers a file
\* event to SkillHandler some time after the file has changed, or never
\* when no observer runs.
Watched == DOMAIN OneSkill
FsEvent(kind, s) == <<kind, s>>

ActFrame ==
  UNCHANGED <<gateVars, provVars, skill_manager, wd, given, skill_calls, seen,
              pc, mode, messages, tool_call_count, max_tool_calls, visited_files,
              tool_calls, idx, req_id, all_tool_results, thinking_parts, events,
              response, llm_calls, executed, start>>

\* "instructions": skill.content of the result.
Instructions(name) ==
  IF SkillFound(name) THEN SkillsAfter(name)[SkillSlug[name]].content ELSE NoBody

\* load_skill_content gets as far as open(skill.file_path).
ReadsSource(name) ==
  /\ SkillFound(name)
  /\ ~skills[SkillSlug[name]].is_loaded
  /\ SkillSlug[name] \in DOMAIN files

ActivateCall(name) ==
  /\ skills' = SkillsAfter(name)
  /\ activated_skills' = [activated_skills EXCEPT ![1] = ActivatedAfter(@, name)]
  /\ activation' = [slug |-> SkillSlug[name], success |-> SkillResult(name).success,
                    instructions |-> Instructions(name), read |-> ReadsSource(name)]
  /\ returned' = IF /\ SkillFound(name)
                      /\ SkillsAfter(name)[SkillSlug[name]].is_loaded
                      /\ SkillSlug[name] \notin DOMAIN returned
                   THEN Put(returned, SkillSlug[name], Instructions(name))
                   ELSE returned
  /\ UNCHANGED <<files, skill_tools, fs_events>>
  /\ ActFrame

\* A skill file is written (created or rewritten) or removed.
FileWritten(s, b) ==
  /\ Get(files, s, NoBody) # b
  /\ files' = Put(files, s, b)
  /\ fs_events' = fs_events \cup
       {FsEvent(IF s \in DOMAIN files THEN "modified" ELSE "created", s)}
  /\ UNCHANGED <<skills, skill_tools, activated_skills, activation, returned>>
  /\ ActFrame

FileRemoved(s) ==
  /\ s \in DOMAIN files
  /\ files' = Pop(files, s)
  /\ fs_events' = fs_events \cup {FsEvent("deleted", s)}
  /\ UNCHANGED <<skills, skill_tools, activated_skills, activation, returned>>
  /\ ActFrame

\* SkillHandler.on_modified.
HandleModified(s) ==
  /\ FsEvent("modified", s) \in fs_events
  /\ fs_events' = fs_events \ {FsEvent("modified", s)}
  /\ skills' = invalidate(skills, s)
  /\ returned' = Pop(returned, s)
  /\ UNCHANGED <<files, skill_tools, activated_skills, activation>>
  /\ ActFrame

\* SkillHandler.on_created / on_deleted: reload_skills.
HandleReload(kind, s) ==
  /\ FsEvent(kind, s) \in fs_events
  /\ fs_events' = fs_events \ {FsEvent(kind, s)}
  /\ skills' = reload_skills(files)
  /\ skill_tools' = register_skills_as_tools(skill_tools, reload_skills(files))
  /\ returned' = EmptyDict
  /\ UNCHANGED <<files, activated_skills, activation>>
  /\ ActFrame

ActivationNext ==
  \/ \E name \in DOMAIN SkillSlug : ActivateCall(name)
  \/ \E s \in Watched, b \in Bodies : FileWritten(s, b)
  \/ \E s \in Watched : FileRemoved(s)
  \/ \E s \in Watched : HandleModified(s)
  \/ \E kind \in {"created", "deleted"}, s \in Watched : HandleReload(kind, s)

ActivationInit ==
  /\ GateInit /\ StoreInit(OneSkill) /\ ProviderInit /\ RunInit({})
  /\ \E mgr \in BOOLEAN : ActInit(mgr)

ActivationSpec == ActivationInit /\ [][ActivationNext]_vars

\* C33: activating a loaded skill again, with no invalidation or reload since
\* its first activation, does not read the source, returns the body the
\* first activation returned, and leaves is_loaded, the body and the run's
\* activated_skills as they are.
C33_ActivationIsIdempotent ==
  [][\A name \in DOMAIN SkillSlug :
       ( /\ ActivateCall(name)
         /\ SkillFound(name)
         /\ SkillSlug[name] \in DOMAIN returned
         /\ skills[SkillSlug[name]].is_loaded )
       => /\ ~activation'.read
          /\ activation'.instructions = returned[SkillSlug[name]]
          /\ skills' = skills
          /\ activated_skills' = activated_skills]_vars

\* A loaded skill whose file has been rewritten since, the observer's event
\* still to come, has just been activated again.
C33_Witness ==
  /\ activation.slug = "x" /\ activation.success /\ ~activation.read
  /\ "x" \in DOMAIN skills /\ skills["x"].is_loaded
  /\ "x" \in DOMAIN files /\ files["x"] # skills["x"].content
  /\ FsEvent("modified", "x") \in fs_events
  /\ activation.instructions = skills["x"].content

\* ------------------------------------------------ a skill that is not there
\* One run of an agent that has its skill manager or none, over a skills
\* directory that holds the skill the planner names or is empty; no
\* sensitive tool is called.
NoSkills == EmptyDict

LostSkillInit ==
  /\ GateInit /\ ProviderInit /\ RunInit({1})
  /\ \E fs \in {NoSkills, OneSkill} : StoreInit(fs)
  /\ \E mgr \in BOOLEAN : ActInit(mgr)

LostSkillNext ==
  \/ Start(1)
  \/ LLMReply(1) /\ NoSensitive(tool_calls'[1])
  \/ LimitReached(1)
  \/ Dispatch(1)

LostSkillSpec == LostSkillInit /\ [][LostSkillNext]_vars

\* The run's last turn is the observation of a failed skill_<slug> call.
FailedSkillTurn(m) ==
  /\ m.role = "tool"
  /\ IsSkillCall(m.name)
  /\ m.content[1] = "[ERROR]"

\* C34: a skill_<slug> call whose slug is not in the store, or made without a
\* skill manager, gives a failed result that is appended as an observation,
\* leaves activated_skills and every is_loaded as they were, and the run
\* goes on.
C34_MissingSkillFailsQuietly ==
  [][\A r \in Runs :
       ( /\ Dispatch(r)
         /\ IsSkillCall(CurrentCall(r).name)
         /\ (~skill_manager \/ SkillSlug[CurrentCall(r).name] \notin DOMAIN skills) )
       => /\ Len(messages'[r]) = Len(messages[r]) + 1
          /\ FailedSkillTurn(messages'[r][Len(messages'[r])])
          /\ messages'[r][Len(messages'[r])].tool_call_id = CurrentCall(r).id
          /\ activated_skills' = activated_skills
          /\ skills' = skills
          /\ pc'[r] \in {"dispatch", "loop"}]_vars

\* The run has gone back to the planner after the failed activation of a
\* skill that is not in the store.
C34_Witness ==
  /\ skill_manager /\ skills = EmptyDict
  /\ pc[1] = "done"
  /\ \E k \in 1..Len(messages[1]) : FailedSkillTurn(messages[1][k])
  /\ activated_skills[1] = {}

\* ------------------------------------------------------- the bounded wait
\* The approval service with every timer firing and every waiting task
\* scheduled once it is runnable.
FairGateSpec ==
  /\ GateSpec
  /\ \A id \in GateIds : WF_vars(ClientTimeout(id)) /\ WF_vars(ClientReturn(id))

\* C35: wait_for_approval always returns in the end; with no approve and no
\* reject it returns False once its timeout has elapsed, so that no run
\* waits for an approval for ever.
C35_WaitAlwaysReturns ==
  \A id \in IdSpace :
    (waiter[id] = "waiting") ~> (waiter[id] = "returned" /\ id \in DOMAIN ret)

\* A wait that nobody answered has returned False.
C35_Witness ==
  \E id \in IdSpace :
    /\ waiter[id] = "returned"
    /\ id \notin DOMAIN firstRes
    /\ id \in DOMAIN ret /\ ~ret[id]
    /\ \E other \in DOMAIN firstRes : waiter[other] = "returned"

\* ------------------------------------------------- an abandoned stream
\* run_stream is an async generator: it goes on from a yield only when its
\* consumer asks for the next event. The StreamingResponse of POST
\* /chat/stream stops asking when the client disconnects, and the generator
\* is closed where it stands; at the approval_required yield that is after
\* create_request and before wait_for_approval.
Abandon(r) ==
  /\ pc[r] = "approval_required"
  /\ pc' = [pc EXCEPT ![r] = "closed"]
  /\ UNCHANGED <<extVars, gateVars, skills, mode, messages, tool_call_count,
                 max_tool_calls, visited_files, activated_skills, tool_calls, idx,
                 req_id, all_tool_results, thinking_parts, events, response,
                 llm_calls, executed, start>>

StreamStep ==
  \/ Start(1) /\ mode'[1] = "stream"
  \/ LLMReply(1)
  \/ LimitReached(1)
  \/ Dispatch(1)
  \/ RequestApproval(1)
  \/ AwaitApproval(1)
  \/ Resume(1)

AbandonNext ==
  \/ StreamStep
  \/ Abandon(1)
  \/ \E id \in KnownIds : Timeout(id)
  \/ \E id \in KnownIds : HttpApprove(id)
  \/ \E id \in KnownIds : HttpReject(id)

\* The generator is scheduled whenever it can go on and every timer fires;
\* the client may leave at the approval_required event.
AbandonSpec ==
  /\ Init /\ [][AbandonNext]_vars
  /\ WF_vars(StreamStep)
  /\ \A id \in IdSpace : WF_vars(Timeout(id))

\* C36: every approval request that is created leaves the pending map in the
\* end, after its resolution or its timeout, also when its run was
\* abandoned.
C36_PendingIsEmptiedInTheEnd ==
  \A id \in IdSpace : (id \in DOMAIN pending) ~> (id \notin DOMAIN pending)

\* --------------------------------------------- the registry after a reload
\* A step in which reload_skills comes to its end.
ReloadCompletes ==
  \/ HttpReload
  \/ \E s \in Slugs, b \in Bodies : HttpSave(s, b)
  \/ \E s \in Slugs : HttpDelete(s)
  \/ WdRegister

\* C37: when reload_skills has completed, the skill_* names of the registry
\* are the names of the skills now in the store, no more and no fewer.
C37_RegistryMatchesStoreAfterReload ==
  [][ReloadCompletes
       => skill_tools' = {SkillToolName[s] : s \in DOMAIN skills'}]_vars

\* ------------------------------------------- a resolution before the wait
\* Every approve / reject of request id so far was made before its
\* wait_for_approval started.
ResolvedBeforeWait(id) ==
  /\ lastCall.id = id
  /\ lastCall.at = "created"
  /\ id \in DOMAIN firstRes

\* C38: an approve(id) or reject(id) made after create_request returned id
\* and before wait_for_approval(id) has started is not lost: the wait does
\* not time out and returns that outcome.
C38_EarlyResolutionIsReturned ==
  \A id \in IdSpace :
    ResolvedBeforeWait(id) =>
      /\ waiter[id] # "timedout"
      /\ id \in DOMAIN ret => ret[id] = firstRes[id]

\* ------------------------------------------------- results within pending
\* C39: every id with a recorded result is in the pending map: no result is
\* recorded for an id that was never created or that was cleaned up.
C39_ResultsWithinPending == DOMAIN results \subseteq DOMAIN pending

\* One request has been answered and waits to be picked up while another
\* has returned and been cleaned up, and the operator has since called
\* approve / reject on an id that is not pending.
C39_Witness ==
  /\ \E id \in DOMAIN results : waiter[id] \in {"created", "waiting"}
  /\ \E id \in IdSpace : waiter[id] = "returned" /\ id \notin DOMAIN pending
  /\ lastCall.at \in {"none", "returned"} /\ lastCall.id # 0

\* ------------------------------------------ activation after invalidation
\* The descriptor of slug s was loaded and then invalidated by on_modified:
\* is_loaded is False and the body read before is still in content.
Invalidated(s) ==
  /\ s \in DOMAIN skills
  /\ ~skills[s].is_loaded
  /\ skills[s].content # NoBody

\* C40: the next successful activation of an invalidated skill returns the
\* body read from the current source, never the body loaded before the
\* invalidation, also when the source cannot be read any more.
C40_InvalidatedSkillGivesCurrentBody ==
  [][\A name \in DOMAIN SkillSlug :
       ( /\ ActivateCall(name)
         /\ skill_manager
         /\ Invalidated(SkillSlug[name])
         /\ activation'.success )
       => /\ SkillSlug[name] \in DOMAIN files
          /\ activation'.instructions = files[SkillSlug[name]]]_vars

=============================================================================
